---------------------------- MODULE Spec2Model ----------------------------
(***************************************************************************)
(* A model of hdr/custom-allocator.h: the NUMA arena and the fixed-size    *)
(* free-list pool (FixedPool<T>, a Treiber stack over slots carved from    *)
(* the arena).                                                             *)
(*                                                                         *)
(* std::size_t values are kept at their width of 64 bits.  TLC's integers  *)
(* are narrower, so a size_t is a sequence of SIZE_BYTES base-256 digits,  *)
(* least significant first, and the arithmetic of the source (+, *, &, ~,  *)
(* >) is done digit by digit; the wrap at 2^64 is the loss of the digits   *)
(* beyond the eighth.  Addresses of the arena's region are small naturals. *)
(*                                                                         *)
(* TLC evaluates an operator's argument anew at every use of it, so the    *)
(* operators on size_t bind their operands once (x \in {a}) before the     *)
(* digit-level recursion runs over them.                                   *)
(***************************************************************************)
EXTENDS Integers, Sequences, FiniteSets, Bags, TLC

(***************************************************************************)
(* Program constants.                                                      *)
(***************************************************************************)
\* #define CACHELINE_SIZE 64
CACHELINE_SIZE == 64
\* sizeof(std::size_t), sizeof(Node*) on the LP64 targets the header builds for
SIZE_BYTES == 8
\* sizeof(OrderMsg): CACHE_ALIGNED struct of 44 bytes of fields, padded to 64
SizeofT == 64
\* sysconf(_SC_PAGESIZE) on the x86-64 Linux hosts of the demo
page_size == 4096

(***************************************************************************)
(* Bounds of the model.                                                    *)
(***************************************************************************)
\* largest capacity a pool of the run-time specifications is built with
MaxCap == 3
\* largest capacity of a pool that several threads call into
MaxCapMT == 2
\* threads that may call into one pool
NThreads == 2
\* completed calls recorded by the single-threaded specification
MaxOps == 9
\* length of the window of most recent completed calls that is remembered
TraceLen == 6
\* largest number of arena pages of the constructor specification
MaxPages == 2
\* capacity of the pool that is allocated from until it is empty
FillCap == 16

\* the arenas one process constructs
MaxArenas == 2

\* the most TickerData records in one datagram
MaxRecords == 3

(***************************************************************************)
(* 64-bit unsigned arithmetic on digit sequences.                          *)
(***************************************************************************)
\* one digit of a size_t is one byte
Digit == 2 ^ 8

RECURSIVE Digits(_, _)
\* the k low base-256 digits of the natural n
Digits(n, k) == IF k = 0 THEN << >> ELSE <<n % Digit>> \o Digits(n \div Digit, k - 1)

\* a small natural as a size_t
U64(n) == Digits(n, SIZE_BYTES)

\* 2^k as a size_t, 0 <= k < 64
Pow2(k) == [i \in 1..SIZE_BYTES |-> IF i - 1 = k \div 8 THEN 2 ^ (k % 8) ELSE 0]

\* SIZE_MAX, which is also -1 modulo 2^64
SIZE_MAX == [i \in 1..SIZE_BYTES |-> Digit - 1]

Zeros(k) == [i \in 1..k |-> 0]

\* a digit sequence as a natural; only for values below 2^31
RECURSIVE ToNat(_)
ToNat(a) == IF a = << >> THEN 0
            ELSE IF \A i \in 1..Len(a) : a[i] = 0 THEN 0
            ELSE a[1] + Digit * ToNat(Tail(a))

RECURSIVE AddC(_, _, _, _)
\* digits i.. of a + b + carry, the carry out of the last digit dropped
AddC(a, b, i, c) ==
    IF i > Len(a) THEN << >>
    ELSE LET s == a[i] + b[i] + c
         IN  <<s % Digit>> \o AddC(a, b, i + 1, s \div Digit)

\* a + b modulo 256^Len(a), for Len(a) = Len(b)
Add(a, b) == CHOOSE r \in {AddC(x, y, 1, 0) : x \in {a}, y \in {b}} : TRUE

\* a - 1 modulo 2^64
Sub1(a) == Add(a, SIZE_MAX)

RECURSIVE MulDigitC(_, _, _, _)
\* the Len(b) + 1 digits of b * d + carry
MulDigitC(b, d, i, c) ==
    IF i > Len(b) THEN <<c>>
    ELSE LET s == b[i] * d + c
         IN  <<s % Digit>> \o MulDigitC(b, d, i + 1, s \div Digit)

RECURSIVE MulFrom(_, _, _)
\* the exact product of the digits i.. of a with b
MulFrom(a, b, i) ==
    IF i > Len(a) THEN Zeros(Len(b))
    ELSE CHOOSE r \in {<<lo[1]>> \o Add(Tail(lo) \o Zeros(Len(a) - i), rest) :
                           lo \in {MulDigitC(b, a[i], 1, 0)},
                           rest \in {MulFrom(a, b, i + 1)}} : TRUE

\* the exact product of a and b, Len(a) + Len(b) digits
MulWide(a, b) == CHOOSE r \in {MulFrom(x, y, 1) : x \in {a}, y \in {b}} : TRUE

\* the low 64 bits of a wider value: what a size_t keeps
Trunc64(x) == SubSeq(x, 1, SIZE_BYTES)

\* a * b as size_t computes it
Mul(a, b) == Trunc64(MulWide(a, b))

\* a size_t widened to 128 bits
Widen(a) == a \o Zeros(SIZE_BYTES)

RECURSIVE LtFrom(_, _, _)
LtFrom(a, b, i) ==
    IF i = 0 THEN FALSE
    ELSE IF a[i] # b[i] THEN a[i] < b[i]
    ELSE LtFrom(a, b, i - 1)

\* a < b, for Len(a) = Len(b)
Lt(a, b) == \E x \in {a}, y \in {b} : LtFrom(x, y, Len(x))

Max(a, b) == IF Lt(a, b) THEN b ELSE a

RECURSIVE AndBits(_, _, _)
AndBits(x, y, k) ==
    IF k = 0 THEN 0
    ELSE (x % 2) * (y % 2) + 2 * AndBits(x \div 2, y \div 2, k - 1)

\* a & b
BitAnd(a, b) ==
    CHOOSE r \in {[i \in 1..Len(x) |-> AndBits(x[i], y[i], 8)] : x \in {a}, y \in {b}} : TRUE

\* ~a
BitNot(a) == CHOOSE r \in {[i \in 1..Len(x) |-> (Digit - 1) - x[i]] : x \in {a}} : TRUE

\* (x + a - 1) & ~(a - 1)
round_up(x, a) == BitAnd(Sub1(Add(x, a)), BitNot(Sub1(a)))

(***************************************************************************)
(* The layout of FixedPool<T>::Node.                                       *)
(***************************************************************************)
\* a natural rounded up to a multiple of a
AlignUp(x, a) == ((x + a - 1) \div a) * a

\* mutant: storage laid over 'next' at the start of the node, as in a union
OffsetofStorage_union == AlignUp(0, CACHELINE_SIZE)

\* offsetof(Node, storage): 'next' comes first, storage is alignas(CACHELINE_SIZE)
OffsetofStorage == AlignUp(SIZE_BYTES, CACHELINE_SIZE)

\* sizeof(Node): next, padding, storage[sizeof(T)], the whole CACHE_ALIGNED
SizeofNode == AlignUp(OffsetofStorage + SizeofT, CACHELINE_SIZE)

\* the null pointer
nullptr == 0

\* Node::payload(): the address of the node's storage member
payload(n) == n + OffsetofStorage

\* Node::from(p): the node whose storage member is at p
Node_from(p) == p - OffsetofStorage

(***************************************************************************)
(* State.                                                                  *)
(***************************************************************************)
VARIABLES
    apc,          \* the statement NumaArena's constructor is at, or how it ended
    bytes,        \* NumaArena's constructor argument 'bytes' (size_t)
    ps,           \* what sysconf(_SC_PAGESIZE) returns on the host
    oscalls,      \* the library calls the constructor made, with their results
    touched,      \* the bag of region offsets prefault_pages wrote a zero byte to
    pi,           \* the loop variable i of prefault_pages
    arena_base,   \* NumaArena::base_: address of the reserved region
    arena_size,   \* NumaArena::size_ (size_t)
    mlockalls,    \* how many times the process has called mlockall
    ctor,         \* outcome of FixedPool's constructor
    slot_size_arg, \* FixedPool's constructor argument 'slot_size' (size_t)
    capacity_,    \* FixedPool::capacity_ (size_t)
    slot_size_,   \* FixedPool::slot_size_ (size_t)
    storage_,     \* FixedPool::storage_
    free_head_,   \* FixedPool::free_head_, the atomic head of the free list
    node_next,    \* Node::next of every node init_freelist built, by address
    pc,           \* per thread: the statement it is at inside allocate/deallocate
    head,         \* per thread: the local 'head'
    next,         \* per thread: the local 'next' of allocate
    node,         \* per thread: the local 'node' of deallocate
    held,         \* per thread: the bag of pointers it got from allocate() and still has
    retq,         \* the owner's return channel of the cross-thread-free discipline
    nAllocOk,     \* history: allocate() calls that returned non-null
    nDealloc,     \* history: completed deallocate() calls
    trace,        \* history: the last TraceLen completed calls, oldest first
    pool2,        \* a second FixedPool built over the same arena: its members
    held2,        \* the pointers the second pool's allocate() has returned
    hpc,          \* the statement DPDK_TBT_Test is at
    mbuf,         \* the packet rte_eth_rx_burst delivered (bufs[0])
    payload_len,  \* process_packet's local 'payload_len' (uint16_t)
    offset,       \* process_packet's local 'offset'
    ret           \* TickToTradeHandler::ret, a string as its sequence of characters

arenaVars == <<apc, bytes, ps, oscalls, touched, pi, arena_base, arena_size, mlockalls>>
poolVars == <<ctor, slot_size_arg, capacity_, slot_size_, storage_, free_head_, node_next>>
threadVars == <<pc, head, next, node, held>>
histVars == <<nAllocOk, nDealloc, trace>>
pool2Vars == <<pool2, held2>>
handlerVars == <<hpc, mbuf, payload_len, offset, ret>>
restVars == <<pool2Vars, handlerVars>>
vars == <<arenaVars, poolVars, threadVars, retq, histVars, restVars>>

Threads == 1..NThreads

\* no second pool has been constructed
NoPool == [ctor |-> "none"]

\* no packet has been received
NoPacket == << >>

(***************************************************************************)
(* NumaArena::NumaArena and prefault_pages.                                *)
(***************************************************************************)
\* the address numa_alloc_onnode returns: page aligned, not null
ArenaBase == 2 ^ 16

\* the page sizes of the Linux hosts libnuma runs on: 4, 8, 16 and 64 KiB
PageSizes == {2 ^ 12, 2 ^ 13, 2 ^ 14, 2 ^ 16}

\* mutant: the loop steps over every other 4 KiB block
stride_double == 2 * 4096

\* constexpr std::size_t stride = 4096;
stride == 4096

\* the largest region numa_alloc_onnode can provide in the model
MemLimit(p) == MaxPages * p

\* requested arena sizes for page size p: around one page, the largest region, and
\* around the largest size_t that is a multiple of p
BytesInputs(p) ==
    {U64(n) : n \in {0, 1, p, p + 1, MemLimit(p)}}
        \cup {BitNot(U64(p - 1)), Add(BitNot(U64(p - 1)), U64(1)), SIZE_MAX}

\* size_(round_up(bytes, page_size()))
ArenaInitSize ==
    /\ apc = "start"
    /\ arena_size' = round_up(bytes, U64(ps))
    /\ apc' = "mlockall"
    /\ UNCHANGED <<poolVars, threadVars, retq, histVars, restVars>>
    /\ UNCHANGED <<bytes, ps, oscalls, touched, pi, arena_base, mlockalls>>

\* if (mlockall(...) != 0) { /* not fatal */ }
AfterMlockall(rc) == "numa_available"

\* mlockall(MCL_CURRENT | MCL_FUTURE) returns 0 or -1
Mlockall ==
    /\ apc = "mlockall"
    /\ \E rc \in {0, -1} :
          /\ oscalls' = Append(oscalls, <<"mlockall", rc>>)
          /\ apc' = AfterMlockall(rc)
    /\ mlockalls' = mlockalls + 1
    /\ UNCHANGED <<poolVars, threadVars, retq, histVars, restVars>>
    /\ UNCHANGED <<bytes, ps, touched, pi, arena_base, arena_size>>

\* mutant: the result of numa_available() is not looked at
AfterNumaAvailable_ignored(rc) == "numa_alloc_onnode"

\* if (numa_available() < 0) throw std::runtime_error("libnuma: NUMA not available");
AfterNumaAvailable(rc) == IF rc < 0 THEN "NumaUnavailable" ELSE "numa_alloc_onnode"

\* numa_available() returns -1 where the host has no NUMA support
NumaAvailable ==
    /\ apc = "numa_available"
    /\ \E rc \in {0, -1} :
          /\ oscalls' = Append(oscalls, <<"numa_available", rc>>)
          /\ apc' = AfterNumaAvailable(rc)
    /\ UNCHANGED <<poolVars, threadVars, retq, histVars, restVars>>
    /\ UNCHANGED <<bytes, ps, touched, pi, arena_base, arena_size, mlockalls>>

\* void* p = numa_alloc_onnode(size_, node_); if (!p) throw std::bad_alloc(); base_ = p;
\* the call may fail for any size, and fails for a size beyond the memory there is
NumaAlloc ==
    /\ apc = "numa_alloc_onnode"
    /\ \E p \in {nullptr, ArenaBase} :
          /\ Lt(U64(MemLimit(ps)), arena_size) => p = nullptr
          /\ oscalls' = Append(oscalls, <<"numa_alloc_onnode", p>>)
          /\ arena_base' = p
          /\ apc' = IF p = nullptr THEN "bad_alloc" ELSE "madvise"
    /\ UNCHANGED <<poolVars, threadVars, retq, histVars, restVars>>
    /\ UNCHANGED <<bytes, ps, touched, pi, arena_size, mlockalls>>

\* if (prefer_thp) (void)madvise(base_, size_, MADV_HUGEPAGE);  then prefault_pages()
\* is entered with i = 0
Madvise ==
    /\ apc = "madvise"
    /\ \E prefer_thp \in BOOLEAN :
          oscalls' = IF prefer_thp THEN Append(oscalls, <<"madvise", 0>>) ELSE oscalls
    /\ pi' = 0
    /\ apc' = "prefault"
    /\ UNCHANGED <<poolVars, threadVars, retq, histVars, restVars>>
    /\ UNCHANGED <<bytes, ps, touched, arena_base, arena_size, mlockalls>>

\* for (std::size_t i = 0; i < size_; i += stride) p[i] = std::byte{0};
\* one iteration, or the exit of the loop and the return of the constructor
PrefaultStep ==
    /\ apc = "prefault"
    /\ IF pi < ToNat(arena_size)
       THEN /\ touched' = touched (+) SetToBag({pi})
            /\ pi' = pi + stride
            /\ apc' = apc
       ELSE /\ apc' = "done"
            /\ UNCHANGED <<touched, pi>>
    /\ UNCHANGED <<poolVars, threadVars, retq, histVars, restVars>>
    /\ UNCHANGED <<bytes, ps, oscalls, arena_base, arena_size, mlockalls>>

\* the offsets prefault_pages writes in a region of size bytes
RECURSIVE TouchedUpTo(_, _)
TouchedUpTo(i, size) ==
    IF i >= size THEN EmptyBag ELSE SetToBag({i}) (+) TouchedUpTo(i + stride, size)

\* a constructed arena of k pages of page_size bytes
ArenaBuilt(k) ==
    /\ apc = "done"
    /\ bytes = U64(k * page_size)
    /\ ps = page_size
    /\ oscalls = <<<<"mlockall", 0>>, <<"numa_available", 0>>,
                   <<"numa_alloc_onnode", ArenaBase>>, <<"madvise", 0>>>>
    /\ touched = TouchedUpTo(0, k * page_size)
    /\ pi = k * page_size
    /\ arena_base = ArenaBase
    /\ arena_size = U64(k * page_size)
    /\ mlockalls = 1

(***************************************************************************)
(* FixedPool::FixedPool and init_freelist.                                 *)
(***************************************************************************)
\* mutant: the node's own size is not taken into account
EffectiveSlotSize_nomax(slot_size) == round_up(slot_size, U64(CACHELINE_SIZE))

\* the member initialiser of slot_size_
EffectiveSlotSize(slot_size) ==
    round_up(Max(slot_size, U64(SizeofNode)), U64(CACHELINE_SIZE))

\* const std::size_t needed = capacity_ * slot_size_;
Needed(capacity, slot_size) == Mul(capacity, EffectiveSlotSize(slot_size))

\* if (needed > arena.size()) throw ...
ArenaTooSmall(asize, capacity, slot_size) == Lt(asize, Needed(capacity, slot_size))

RECURSIVE init_loop(_, _, _, _, _, _)
\* the for loop of init_freelist from iteration i on: n iterations in all, p the
\* address of the next node, prev the node linked last, links the next fields written
init_loop(i, n, p, prev, links, slot) ==
    IF i >= n THEN [head |-> prev, links |-> links]
    ELSE init_loop(i + 1, n, p + slot, p, (p :> prev) @@ links, slot)

\* mutant: the nodes are linked upwards and the head is the first node of the region
init_freelist_ascending(storage, capacity, slot_size) ==
    IF capacity = U64(0) THEN [head |-> nullptr, links |-> << >>]
    ELSE LET slot == ToNat(slot_size)
             top  == storage + (ToNat(capacity) - 1) * slot
         IN  [head |-> storage,
              links |-> [n \in {storage + i * slot : i \in 0..(ToNat(capacity) - 1)} |->
                            IF n = top THEN nullptr ELSE n + slot]]

\* mutant: the loop stops one slot early (i < capacity_ - 1)
init_freelist_short(storage, capacity, slot_size) ==
    IF capacity = U64(0) THEN [head |-> nullptr, links |-> << >>]
    ELSE init_loop(0, ToNat(capacity) - 1, storage, nullptr, << >>, ToNat(slot_size))

\* mutant: the loop runs one slot too far (i <= capacity_)
init_freelist_long(storage, capacity, slot_size) ==
    init_loop(0, ToNat(capacity) + 1, storage, nullptr, << >>, ToNat(slot_size))

\* init_freelist() over a region it does not leave; slot_size is the size_t
\* slot_size_.  With slot_size_ = 0 every iteration after the second rewrites the
\* one node with the same value, so two iterations stand for any larger number.
init_freelist(storage, capacity, slot_size) ==
    IF capacity = U64(0) THEN [head |-> nullptr, links |-> << >>]
    ELSE LET slot == ToNat(slot_size)
             n    == IF slot = 0 /\ Lt(U64(2), capacity) THEN 2 ELSE ToNat(capacity)
         IN  init_loop(0, n, storage, nullptr, << >>, slot)

\* whether init_freelist writes a node beyond the arena's region: the constructor's
\* check let through a pool whose slots do not fit
Overruns(asize, capacity, slot) == Lt(Widen(asize), MulWide(capacity, slot))

\* the constructor: its outcome and the members and nodes it leaves
FixedPool(abase, asize, capacity, slot_size) ==
    LET ss == EffectiveSlotSize(slot_size)
    IN  IF ArenaTooSmall(asize, capacity, slot_size)
        THEN [ctor |-> "ArenaTooSmall", capacity |-> capacity, slot_size |-> ss,
              storage |-> nullptr, free_head |-> nullptr, links |-> << >>]
        ELSE IF Overruns(asize, capacity, ss)
        THEN [ctor |-> "overrun", capacity |-> capacity, slot_size |-> ss,
              storage |-> abase, free_head |-> nullptr, links |-> << >>]
        ELSE LET fl == init_freelist(abase, capacity, ss)
             IN  [ctor |-> "ok", capacity |-> capacity, slot_size |-> ss,
                  storage |-> abase, free_head |-> fl.head, links |-> fl.links]

(***************************************************************************)
(* Initial states.                                                         *)
(***************************************************************************)
\* no thread is inside a call and no call has been made; there is no second pool,
\* and DPDK_TBT_Test has not been entered
ThreadsIdle ==
    /\ pc = [t \in Threads |-> "idle"]
    /\ head = [t \in Threads |-> nullptr]
    /\ next = [t \in Threads |-> nullptr]
    /\ node = [t \in Threads |-> nullptr]
    /\ held = [t \in Threads |-> EmptyBag]
    /\ retq = << >>
    /\ nAllocOk = 0
    /\ nDealloc = 0
    /\ trace = << >>
    /\ pool2 = NoPool
    /\ held2 = {}
    /\ hpc = "init"
    /\ mbuf = NoPacket
    /\ payload_len = 0
    /\ offset = 0
    /\ ret = << >>

\* a constructed arena of k pages and no pool yet (the member initialisers of
\* FixedPool: free_head_{nullptr}, storage_{nullptr}, capacity_{0}, slot_size_{0})
InitCtor ==
    /\ \E k \in 1..MaxPages : ArenaBuilt(k)
    /\ ctor = "none"
    /\ slot_size_arg = U64(0)
    /\ capacity_ = U64(0)
    /\ slot_size_ = U64(0)
    /\ storage_ = nullptr
    /\ free_head_ = nullptr
    /\ node_next = << >>
    /\ ThreadsIdle

\* capacities handed to the constructor: small ones, the ones around an arena
\* full of slots, and ones whose product with the slot size reaches 2^64
CapacityInputs ==
    {U64(n) : n \in {0, 1, 2, 3, 21, 22, 31, 32, 33, 64, 65}}
        \cup {Pow2(56), Pow2(57), Add(Pow2(57), U64(1)), Add(Pow2(57), U64(32)),
              Pow2(58), Pow2(63), SIZE_MAX}

\* requested slot sizes: around sizeof(Node) and around SIZE_MAX
SlotSizeInputs ==
    {U64(n) : n \in {0, 1, SizeofT, SizeofNode, SizeofNode + 1, 3 * CACHELINE_SIZE}}
        \cup {Pow2(63), Add(SIZE_MAX, BitNot(U64(CACHELINE_SIZE))), SIZE_MAX}

\* FixedPool pool(arena, capacity, slot_size)
Construct(capacity, slot_size) ==
    /\ apc = "done"
    /\ ctor = "none"
    /\ \E made \in {FixedPool(arena_base, arena_size, capacity, slot_size)} :
           /\ ctor' = made.ctor
           /\ slot_size_arg' = slot_size
           /\ capacity_' = made.capacity
           /\ slot_size_' = made.slot_size
           /\ storage_' = made.storage
           /\ free_head_' = made.free_head
           /\ node_next' = made.links
    /\ UNCHANGED <<restVars, arenaVars, threadVars, retq, histVars>>

NextCtor == \E c \in CapacityInputs, s \in SlotSizeInputs : Construct(c, s)

SpecCtor == InitCtor /\ [][NextCtor]_vars

(***************************************************************************)
(* The construction of an arena, and of a pool over it once it stands.     *)
(***************************************************************************)
\* NumaArena arena(bytes, node, prefer_thp) on a host of page size ps
InitArena ==
    /\ apc = "start"
    /\ ps \in PageSizes
    /\ bytes \in BytesInputs(ps)
    /\ oscalls = << >>
    /\ touched = EmptyBag
    /\ pi = 0
    /\ arena_base = nullptr
    /\ arena_size = U64(0)
    /\ mlockalls = 0
    /\ ctor = "none"
    /\ slot_size_arg = U64(0)
    /\ capacity_ = U64(0)
    /\ slot_size_ = U64(0)
    /\ storage_ = nullptr
    /\ free_head_ = nullptr
    /\ node_next = << >>
    /\ ThreadsIdle

NextArena ==
    \/ ArenaInitSize
    \/ Mlockall
    \/ NumaAvailable
    \/ NumaAlloc
    \/ Madvise
    \/ PrefaultStep
    \/ \E c \in 0..1 : Construct(U64(c), U64(SizeofT))

SpecArena == InitArena /\ [][NextArena]_vars

(***************************************************************************)
(* One process constructing arenas one after the other.                    *)
(***************************************************************************)
\* a further NumaArena arena(bytes, node, prefer_thp) once the constructor of the one
\* before has returned or thrown: the arena variables are those of the latest arena
NewArena ==
    /\ apc \in {"done", "NumaUnavailable", "bad_alloc"}
    /\ ctor = "none"
    /\ mlockalls < MaxArenas
    /\ apc' = "start"
    /\ bytes' \in BytesInputs(ps)
    /\ oscalls' = << >>
    /\ touched' = EmptyBag
    /\ pi' = 0
    /\ arena_base' = nullptr
    /\ arena_size' = U64(0)
    /\ UNCHANGED <<ps, mlockalls>>
    /\ UNCHANGED <<poolVars, threadVars, retq, histVars, restVars>>

NextArenas ==
    \/ ArenaInitSize
    \/ Mlockall
    \/ NumaAvailable
    \/ NumaAlloc
    \/ Madvise
    \/ PrefaultStep
    \/ NewArena

SpecArenas == InitArena /\ [][NextArenas]_vars

\* a pool of the demo's element type over a one-page arena, of a capacity up to maxcap
PoolBuilt(maxcap) ==
    /\ ArenaBuilt(1)
    /\ \E c \in 0..maxcap :
         \E made \in {FixedPool(arena_base, arena_size, U64(c), U64(SizeofT))} :
           /\ ctor = made.ctor
           /\ slot_size_arg = U64(SizeofT)
           /\ capacity_ = made.capacity
           /\ slot_size_ = made.slot_size
           /\ storage_ = made.storage
           /\ free_head_ = made.free_head
           /\ node_next = made.links
    /\ ThreadsIdle

InitPool == PoolBuilt(MaxCap)

InitPoolMT == PoolBuilt(MaxCapMT)

(***************************************************************************)
(* FixedPool::allocate, one action per access to shared memory.            *)
(***************************************************************************)
\* leaving a call: the locals go out of scope
Leave(t) ==
    /\ pc' = [pc EXCEPT ![t] = "idle"]
    /\ head' = [head EXCEPT ![t] = nullptr]
    /\ next' = [next EXCEPT ![t] = nullptr]
    /\ node' = [node EXCEPT ![t] = nullptr]

\* mutant: the exchange installs the head it has just read, popping nothing
PopDesired_head(t) == head[t]

\* mutant: the exchange installs the next link head has at the time of the exchange
PopDesired_fresh(t) == node_next[head[t]]

\* the desired value of allocate's compare_exchange_weak(head, next)
PopDesired(t) == next[t]

\* mutant: the store to node->next is missing, the node keeps its old link
PushLink_stale(t) == node_next[node[t]]

\* mutant: the node is pushed with a null link, cutting off the rest of the list
PushLink_null(t) == nullptr

\* the value deallocate stores into node->next
PushLink(t) == head[t]

\* mutant: the exchange is given head where node was meant
PushDesired_head(t) == head[t]

\* the desired value of deallocate's compare_exchange_weak(head, node)
PushDesired(t) == node[t]

\* mutant: the exchange stores without comparing
CasMatches_always(t) == TRUE

\* the comparison of compare_exchange_weak(head, ...)
CasMatches(t) == free_head_ = head[t]

\* Node* head = free_head_.load(); if (!head) return nullptr;
AllocLoad(t) ==
    /\ ctor = "ok"
    /\ pc[t] = "idle"
    /\ IF free_head_ = nullptr
       THEN UNCHANGED <<pc, head>>
       ELSE /\ head' = [head EXCEPT ![t] = free_head_]
            /\ pc' = [pc EXCEPT ![t] = "a_next"]
    /\ UNCHANGED <<restVars, arenaVars, poolVars, next, node, held, retq>>

\* Node* next = head->next;   (before the loop and in its body)
AllocReadNext(t) ==
    /\ pc[t] = "a_next"
    /\ next' = [next EXCEPT ![t] = node_next[head[t]]]
    /\ pc' = [pc EXCEPT ![t] = "a_cas"]
    /\ UNCHANGED <<restVars, arenaVars, poolVars, head, node, held, retq>>

\* mutant: allocate clears the next link of the node it hands out
AllocCas_scrub(t) ==
    /\ pc[t] = "a_cas"
    /\ IF CasMatches(t)
       THEN /\ free_head_' = PopDesired(t)
            /\ node_next' = [node_next EXCEPT ![head[t]] = nullptr]
            /\ held' = [held EXCEPT ![t] = @ (+) SetToBag({payload(head[t])})]
            /\ Leave(t)
       ELSE /\ UNCHANGED <<free_head_, held, node_next>>
            /\ IF free_head_ = nullptr
               THEN Leave(t)
               ELSE /\ head' = [head EXCEPT ![t] = free_head_]
                    /\ pc' = [pc EXCEPT ![t] = "a_next"]
                    /\ UNCHANGED <<next, node>>
    /\ UNCHANGED <<restVars, arenaVars, ctor, slot_size_arg, capacity_, slot_size_, storage_, retq>>

\* while (!free_head_.compare_exchange_weak(head, next)) { if (!head) return nullptr; ... }
\* return head->payload();
AllocCas(t) ==
    /\ pc[t] = "a_cas"
    /\ IF CasMatches(t)
       THEN /\ free_head_' = PopDesired(t)
            /\ held' = [held EXCEPT ![t] = @ (+) SetToBag({payload(head[t])})]
            /\ Leave(t)
       ELSE /\ UNCHANGED <<free_head_, held>>
            /\ IF free_head_ = nullptr
               THEN Leave(t)
               ELSE /\ head' = [head EXCEPT ![t] = free_head_]
                    /\ pc' = [pc EXCEPT ![t] = "a_next"]
                    /\ UNCHANGED <<next, node>>
    /\ UNCHANGED <<restVars, arenaVars, ctor, slot_size_arg, capacity_, slot_size_, storage_, node_next, retq>>

\* compare_exchange_weak failing although free_head_ == head, as the weak form may:
\* head is left as it was and the loop body runs again
AllocCasSpurious(t) ==
    /\ pc[t] = "a_cas"
    /\ free_head_ = head[t]
    /\ pc' = [pc EXCEPT ![t] = "a_next"]
    /\ UNCHANGED <<restVars, arenaVars, poolVars, head, next, node, held, retq>>

(***************************************************************************)
(* FixedPool::deallocate.                                                  *)
(***************************************************************************)
\* mutant: a pointer whose node is the head of the free list is turned away as well
Rejected_head(obj) == obj = nullptr \/ Node_from(obj) = free_head_

\* if (!obj) return;   the one check deallocate makes of its argument
Rejected(obj) == obj = nullptr

\* deallocate(obj) returning at its first statement
DeallocRejected(t, obj) ==
    /\ ctor = "ok"
    /\ pc[t] = "idle"
    /\ Rejected(obj)
    /\ UNCHANGED <<restVars, arenaVars, poolVars, threadVars, retq>>

\* if (!obj) return; Node* node = Node::from(obj); Node* head = free_head_.load();
DeallocBegin(t, obj) ==
    /\ ctor = "ok"
    /\ pc[t] = "idle"
    /\ ~Rejected(obj)
    /\ node' = [node EXCEPT ![t] = Node_from(obj)]
    /\ head' = [head EXCEPT ![t] = free_head_]
    /\ pc' = [pc EXCEPT ![t] = "d_store"]
    /\ UNCHANGED <<restVars, arenaVars, poolVars, next>>

\* node->next = head;
DeallocStore(t) ==
    /\ pc[t] = "d_store"
    /\ node_next' = [node_next EXCEPT ![node[t]] = PushLink(t)]
    /\ pc' = [pc EXCEPT ![t] = "d_cas"]
    /\ UNCHANGED <<restVars, arenaVars, ctor, slot_size_arg, capacity_, slot_size_, storage_, free_head_,
                   head, next, node, held, retq>>

\* while (!free_head_.compare_exchange_weak(head, node));
DeallocCas(t) ==
    /\ pc[t] = "d_cas"
    /\ IF CasMatches(t)
       THEN /\ free_head_' = PushDesired(t)
            /\ Leave(t)
       ELSE /\ head' = [head EXCEPT ![t] = free_head_]
            /\ pc' = [pc EXCEPT ![t] = "d_store"]
            /\ UNCHANGED <<free_head_, next, node>>
    /\ UNCHANGED <<restVars, arenaVars, ctor, slot_size_arg, capacity_, slot_size_, storage_, node_next,
                   held, retq>>

\* the weak compare-exchange failing spuriously in deallocate's loop
DeallocCasSpurious(t) ==
    /\ pc[t] = "d_cas"
    /\ free_head_ = head[t]
    /\ pc' = [pc EXCEPT ![t] = "d_store"]
    /\ UNCHANGED <<restVars, arenaVars, poolVars, head, next, node, held, retq>>

(***************************************************************************)
(* Callers.                                                                *)
(***************************************************************************)
\* thread t calls deallocate(obj) with a pointer thread h got from allocate()
\* and still has (h = t unless the pointer was passed on)
CallDeallocate(t, h, obj) ==
    /\ BagIn(obj, held[h])
    /\ held' = [held EXCEPT ![h] = @ (-) SetToBag({obj})]
    /\ DeallocBegin(t, obj)
    /\ UNCHANGED retq

\* every pointer some thread holds
HeldPointers == UNION {BagToSet(held[t]) : t \in Threads}

\* the number of holdings of pointer p
Holdings(p) ==
    LET count[T \in SUBSET Threads] ==
            IF T = {} THEN 0
            ELSE LET t == CHOOSE u \in T : TRUE
                 IN  CopiesIn(p, held[t]) + count[T \ {t}]
    IN  count[Threads]

(***************************************************************************)
(* History of completed calls (observation only).                          *)
(***************************************************************************)
\* the window of the last TraceLen calls after one more
Push(tr, call) ==
    LET all == Append(tr, call)
    IN  IF Len(all) > TraceLen THEN Tail(all) ELSE all

\* what the step of allocate() by t returned: the payload of the node it popped,
\* or null
Returned(t) == IF held'[t] # held[t] THEN payload(head[t]) ELSE nullptr

\* after a step of allocate() by t: record the call if the step returned
ObserveAlloc(t) ==
    IF pc'[t] = "idle"
    THEN /\ nAllocOk' = nAllocOk + (IF Returned(t) # nullptr THEN 1 ELSE 0)
         /\ trace' = Push(trace, <<"allocate", Returned(t)>>)
         /\ UNCHANGED nDealloc
    ELSE UNCHANGED histVars

\* after a step of deallocate() by t: record the call if the step returned
ObserveDealloc(t) ==
    IF pc'[t] = "idle"
    THEN /\ nDealloc' = nDealloc + 1
         /\ trace' = Push(trace, <<"deallocate", payload(node[t])>>)
         /\ UNCHANGED nAllocOk
    ELSE UNCHANGED histVars

\* a further call may start
CanCall == nAllocOk + nDealloc < MaxOps

(***************************************************************************)
(* Single-threaded use: the owner is the only caller.                      *)
(***************************************************************************)
Owner == 1

NextST ==
    \/ CanCall /\ AllocLoad(Owner) /\ ObserveAlloc(Owner)
    \/ AllocReadNext(Owner) /\ UNCHANGED histVars
    \/ AllocCas(Owner) /\ ObserveAlloc(Owner)
    \/ AllocCasSpurious(Owner) /\ UNCHANGED histVars
    \/ \E obj \in BagToSet(held[Owner]) :
          CanCall /\ CallDeallocate(Owner, Owner, obj) /\ UNCHANGED histVars
    \/ DeallocStore(Owner) /\ UNCHANGED histVars
    \/ DeallocCas(Owner) /\ ObserveDealloc(Owner)
    \/ DeallocCasSpurious(Owner) /\ UNCHANGED histVars

SpecST == InitPool /\ [][NextST]_vars

(***************************************************************************)
(* A pool built with any slot size and a small capacity, then used by one  *)
(* thread.                                                                 *)
(***************************************************************************)
\* requested slot sizes: below, at and above sizeof(Node), and the largest size_t
UseSlotSizeInputs == {U64(1), U64(SizeofT), U64(SizeofNode + 1), SIZE_MAX}

NextUse ==
    \/ \E c \in 0..MaxCap, s \in UseSlotSizeInputs : Construct(U64(c), s)
    \/ NextST

SpecUse == InitCtor /\ [][NextUse]_vars

(***************************************************************************)
(* One thread allocating from a fresh pool until it is empty.              *)
(***************************************************************************)
InitFill == PoolBuilt(FillCap)

NextFill ==
    \/ AllocLoad(Owner) /\ UNCHANGED histVars
    \/ AllocReadNext(Owner) /\ UNCHANGED histVars
    \/ AllocCas(Owner) /\ UNCHANGED histVars
    \/ AllocCasSpurious(Owner) /\ UNCHANGED histVars

SpecFill == InitFill /\ [][NextFill]_vars

(***************************************************************************)
(* The single-owner-drain discipline of the design notes: only the owner   *)
(* calls into the pool; a thread that got a pointer from the owner gives   *)
(* it back through the owner's return channel, which the owner drains      *)
(* into deallocate().                                                      *)
(***************************************************************************)
Workers == Threads \ {Owner}

\* the owner passes a pointer it holds on to worker w
PassOn(w, obj) ==
    /\ BagIn(obj, held[Owner])
    /\ held' = [held EXCEPT ![Owner] = @ (-) SetToBag({obj}),
                            ![w] = @ (+) SetToBag({obj})]
    /\ UNCHANGED <<restVars, arenaVars, poolVars, pc, head, next, node, retq>>

\* worker w is done with a pointer and enqueues it on the return channel
ReturnToOwner(w, obj) ==
    /\ BagIn(obj, held[w])
    /\ held' = [held EXCEPT ![w] = @ (-) SetToBag({obj})]
    /\ retq' = Append(retq, obj)
    /\ UNCHANGED <<restVars, arenaVars, poolVars, pc, head, next, node>>

\* the owner takes the oldest returned pointer and calls deallocate() on it
Drain ==
    /\ retq # << >>
    /\ DeallocBegin(Owner, Head(retq))
    /\ retq' = Tail(retq)
    /\ UNCHANGED held

NextDrain ==
    \/ AllocLoad(Owner) /\ UNCHANGED histVars
    \/ AllocReadNext(Owner) /\ UNCHANGED histVars
    \/ AllocCas(Owner) /\ UNCHANGED histVars
    \/ AllocCasSpurious(Owner) /\ UNCHANGED histVars
    \/ \E obj \in BagToSet(held[Owner]) :
          CallDeallocate(Owner, Owner, obj) /\ UNCHANGED histVars
    \/ DeallocStore(Owner) /\ UNCHANGED histVars
    \/ DeallocCas(Owner) /\ UNCHANGED histVars
    \/ DeallocCasSpurious(Owner) /\ UNCHANGED histVars
    \/ \E w \in Workers : \E obj \in BagToSet(held[Owner]) :
          PassOn(w, obj) /\ UNCHANGED histVars
    \/ \E w \in Workers : \E obj \in BagToSet(held[w]) :
          ReturnToOwner(w, obj) /\ UNCHANGED histVars
    \/ Drain /\ UNCHANGED histVars

SpecDrain == InitPool /\ [][NextDrain]_vars

(***************************************************************************)
(* Threads calling into one pool directly.  A run ends when a pointer is   *)
(* handed out that is already held: the program has failed by then.        *)
(***************************************************************************)
\* some pointer is held twice
DoubleHeld == \E p \in HeldPointers : Holdings(p) > 1

\* the run goes on, and the history is not recorded
Running == ~DoubleHeld /\ UNCHANGED histVars

\* every thread allocates, and deallocates the pointers it holds
NextMT ==
    \E t \in Threads :
        \/ AllocLoad(t) /\ Running
        \/ AllocReadNext(t) /\ Running
        \/ AllocCas(t) /\ Running
        \/ AllocCasSpurious(t) /\ Running
        \/ \E obj \in BagToSet(held[t]) : CallDeallocate(t, t, obj) /\ Running
        \/ DeallocStore(t) /\ Running
        \/ DeallocCas(t) /\ Running
        \/ DeallocCasSpurious(t) /\ Running

SpecMT == InitPoolMT /\ [][NextMT]_vars

\* the one thread that calls deallocate() in the single-producer scenario
Producer == 1

\* every thread allocates; only the producer deallocates, its own pointers and the
\* ones other threads pass to it
NextSP ==
    \/ \E t \in Threads :
          \/ AllocLoad(t) /\ Running
          \/ AllocReadNext(t) /\ Running
          \/ AllocCas(t) /\ Running
          \/ AllocCasSpurious(t) /\ Running
    \/ \E h \in Threads : \E obj \in BagToSet(held[h]) :
          CallDeallocate(Producer, h, obj) /\ Running
    \/ DeallocStore(Producer) /\ Running
    \/ DeallocCas(Producer) /\ Running
    \/ DeallocCasSpurious(Producer) /\ Running

SpecSP == InitPoolMT /\ [][NextSP]_vars

(***************************************************************************)
(* Threads calling into one pool in two phases: first they only allocate,  *)
(* and once a deallocate() has started they only deallocate.               *)
(***************************************************************************)
Allocating(t) == pc[t] \in {"a_next", "a_cas"}

Deallocating(t) == pc[t] \in {"d_store", "d_cas"}

\* the first deallocate() has been called
DeallocPhase == nDealloc > 0 \/ \E t \in Threads : Deallocating(t)

\* the calls made so far, completed or not, as long as the window holds them all
Started == Len(trace) + Cardinality({t \in Threads : pc[t] # "idle"})

NextPhased ==
    \E t \in Threads :
        \/ /\ ~DeallocPhase
           /\ Started < TraceLen
           /\ AllocLoad(t)
           /\ ObserveAlloc(t)
        \/ AllocReadNext(t) /\ UNCHANGED histVars
        \/ AllocCas(t) /\ ObserveAlloc(t)
        \/ AllocCasSpurious(t) /\ UNCHANGED histVars
        \/ \E obj \in BagToSet(held[t]) :
              /\ \A u \in Threads : ~Allocating(u)
              /\ CallDeallocate(t, t, obj)
              /\ UNCHANGED histVars
        \/ DeallocStore(t) /\ UNCHANGED histVars
        \/ DeallocCas(t) /\ ObserveDealloc(t)
        \/ DeallocCasSpurious(t) /\ UNCHANGED histVars

SpecPhased == InitPool /\ [][NextPhased]_vars

(***************************************************************************)
(* A second pool built over the arena the first pool stands on.            *)
(***************************************************************************)
\* memory after init_freelist has written the links of its nodes over it
Overwritten(mem, links) ==
    [a \in DOMAIN mem \cup DOMAIN links |-> IF a \in DOMAIN links THEN links[a] ELSE mem[a]]

\* FixedPool pool2(arena, capacity, slot_size) over the arena of the first pool: its
\* storage_ is arena.base() too, and init_freelist writes its links there
Construct2(capacity, slot_size) ==
    /\ apc = "done"
    /\ ctor = "ok"
    /\ pool2.ctor = "none"
    /\ \E made \in {FixedPool(arena_base, arena_size, capacity, slot_size)} :
           /\ pool2' = [ctor |-> made.ctor, capacity |-> made.capacity,
                        slot_size |-> made.slot_size, storage |-> made.storage,
                        free_head |-> made.free_head]
           /\ node_next' = Overwritten(node_next, made.links)
    /\ UNCHANGED <<arenaVars, ctor, slot_size_arg, capacity_, slot_size_, storage_, free_head_>>
    /\ UNCHANGED <<threadVars, retq, histVars, held2, handlerVars>>

\* pool2.allocate() called by the one thread that uses the second pool: nothing can
\* come between its load and its exchange of pool2's own free_head_
Allocate2 ==
    /\ pool2.ctor = "ok"
    /\ IF pool2.free_head = nullptr
       THEN UNCHANGED <<pool2, held2>>
       ELSE /\ pool2' = [pool2 EXCEPT !.free_head = node_next[pool2.free_head]]
            /\ held2' = held2 \cup {payload(pool2.free_head)}
    /\ UNCHANGED <<arenaVars, poolVars, threadVars, retq, histVars, handlerVars>>

NextShared ==
    \/ AllocLoad(Owner) /\ UNCHANGED histVars
    \/ AllocReadNext(Owner) /\ UNCHANGED histVars
    \/ AllocCas(Owner) /\ UNCHANGED histVars
    \/ AllocCasSpurious(Owner) /\ UNCHANGED histVars
    \/ \E c \in 0..MaxCap : Construct2(U64(c), U64(SizeofT))
    \/ Allocate2

SpecShared == InitPool /\ [][NextShared]_vars

(***************************************************************************)
(* One thread that also passes deallocate() pointers it does not hold: the *)
(* null pointer, and a pointer it has deallocated before.                  *)
(***************************************************************************)
\* the pointers the caller deallocated earlier and kept a copy of, whose slot is now
\* the head of the free list
StaleHeadPointers ==
    {p \in {payload(free_head_)} :
        /\ free_head_ # nullptr
        /\ \E i \in 1..Len(trace) : trace[i] = <<"deallocate", p>>
        /\ ~BagIn(p, held[Owner])}

\* deallocate(obj) of a pointer the caller does not hold: it returns at once, or goes
\* on as for any other pointer
DeallocateUnheld(obj) ==
    IF Rejected(obj)
    THEN /\ DeallocRejected(Owner, obj)
         /\ nDealloc' = nDealloc + 1
         /\ trace' = Push(trace, <<"deallocate", obj>>)
         /\ UNCHANGED nAllocOk
    ELSE /\ DeallocBegin(Owner, obj)
         /\ UNCHANGED <<held, retq>>
         /\ UNCHANGED histVars

NextMisuse ==
    \/ CanCall /\ AllocLoad(Owner) /\ ObserveAlloc(Owner)
    \/ AllocReadNext(Owner) /\ UNCHANGED histVars
    \/ AllocCas(Owner) /\ ObserveAlloc(Owner)
    \/ AllocCasSpurious(Owner) /\ UNCHANGED histVars
    \/ \E obj \in BagToSet(held[Owner]) :
          CanCall /\ CallDeallocate(Owner, Owner, obj) /\ UNCHANGED histVars
    \/ \E obj \in StaleHeadPointers \cup {nullptr} : CanCall /\ DeallocateUnheld(obj)
    \/ DeallocStore(Owner) /\ UNCHANGED histVars
    \/ DeallocCas(Owner) /\ ObserveDealloc(Owner)
    \/ DeallocCasSpurious(Owner) /\ UNCHANGED histVars

SpecMisuse == InitPool /\ [][NextMisuse]_vars

(***************************************************************************)
(* DPDK_TBT_Test: TickToTradeHandler::init, run, process_packet and        *)
(* handle_tick.                                                            *)
(***************************************************************************)
\* sizeof(TickerData), packed: uint64_t, uint32_t, double, uint32_t
SizeofTickerData == 8 + 4 + 8 + 4

\* sizeof(struct rte_udp_hdr): four 16-bit fields
SizeofUdpHdr == 4 * 2

\* the TickerData records datagrams are made of; price is given in tenths.  The first
\* is the tick of ticker_packet.bin
Ticks ==
    {[ts_ns |-> 0, instr_id |-> 2, price |-> 208, qty |-> 20],
     [ts_ns |-> 1000, instr_id |-> 7, price |-> 150, qty |-> 3]}

RECURSIVE SeqsUpTo(_, _)
\* the sequences over S of a length up to n
SeqsUpTo(S, n) ==
    IF n = 0 THEN {<< >>}
    ELSE LET shorter == SeqsUpTo(S, n - 1)
         IN  shorter \cup {Append(q, x) : q \in shorter, x \in S}

\* the frames rte_eth_rx_burst delivers: the destination matches 239.255.0.1 or not,
\* the destination port is 12345 or not, and the UDP payload holds 1..MaxRecords
\* records, followed by up to a record's size less one byte that belong to no record
Packets ==
    {[dst_addr_match |-> a, dst_port_match |-> p,
      dgram_len |-> SizeofUdpHdr + Len(r) * SizeofTickerData + slack, records |-> r] :
        a \in BOOLEAN, p \in BOOLEAN, slack \in {0, SizeofTickerData - 1},
        r \in SeqsUpTo(Ticks, MaxRecords) \ {<< >>}}

\* ostream << of an unsigned integer: its decimal digits
RECURSIVE Dec(_)
Dec(n) ==
    LET d == <<"0", "1", "2", "3", "4", "5", "6", "7", "8", "9">>[(n % 10) + 1]
    IN  IF n < 10 THEN <<d>> ELSE Append(Dec(n \div 10), d)

\* ostream << of a double at the default precision, for a value of tenths / 10 below
\* 10^5: the integer part, and the tenth after a point unless it is zero
ShowDouble(tenths) ==
    IF tenths % 10 = 0 THEN Dec(tenths \div 10)
    ELSE Dec(tenths \div 10) \o <<".">> \o Dec(tenths % 10)

\* the string handle_tick appends for td
TickEntry(td) ==
    <<"Tick: instr=">> \o Dec(td.instr_id) \o <<" price=">> \o ShowDouble(td.price)
        \o <<" qty=">> \o Dec(td.qty) \o <<" ts_ns=">> \o Dec(td.ts_ns)

\* TickerData* td = (TickerData*)(udp_hdr + 1): the record the loop body reads when
\* its offset is off
RecordRead(pkt, off) == pkt.records[1]

\* handler.init(): rte_eal_init and init_port succeed or not
HandlerInit ==
    /\ hpc = "init"
    /\ \E ok \in BOOLEAN : hpc' = IF ok THEN "rx" ELSE "EXIT_FAILURE"
    /\ UNCHANGED <<mbuf, payload_len, offset, ret>>
    /\ UNCHANGED <<arenaVars, poolVars, threadVars, retq, histVars, pool2Vars>>

\* uint16_t nb_rx = rte_eth_rx_burst(...); if (nb_rx) { process_packet(bufs[0]); ... }
\* the poll finds nothing, or delivers a frame
RxBurst ==
    /\ hpc = "rx"
    /\ \/ UNCHANGED <<hpc, mbuf>>
       \/ /\ mbuf' \in Packets
          /\ hpc' = "process_packet"
    /\ UNCHANGED <<payload_len, offset, ret>>
    /\ UNCHANGED <<arenaVars, poolVars, threadVars, retq, histVars, pool2Vars>>

\* process_packet up to its loop: size_t offset = 0; the check of the destination,
\* which returns when neither address nor port matches; payload_len
ProcessPacket ==
    /\ hpc = "process_packet"
    /\ offset' = 0
    /\ IF ~mbuf.dst_addr_match /\ ~mbuf.dst_port_match
       THEN /\ hpc' = "done"
            /\ UNCHANGED payload_len
       ELSE /\ payload_len' = (mbuf.dgram_len - SizeofUdpHdr) % (2 ^ 16)
            /\ hpc' = "while"
    /\ UNCHANGED <<mbuf, ret>>
    /\ UNCHANGED <<arenaVars, poolVars, threadVars, retq, histVars, pool2Vars>>

\* while (offset + sizeof(TickerData) <= payload_len) { td = ...; handle_tick(*td);
\* offset += sizeof(TickerData); }   one iteration, or the exit of the loop
WhileStep ==
    /\ hpc = "while"
    /\ IF offset + SizeofTickerData <= payload_len
       THEN /\ ret' = ret \o TickEntry(RecordRead(mbuf, offset))
            /\ offset' = offset + SizeofTickerData
            /\ hpc' = hpc
       ELSE /\ hpc' = "done"
            /\ UNCHANGED <<offset, ret>>
    /\ UNCHANGED <<mbuf, payload_len>>
    /\ UNCHANGED <<arenaVars, poolVars, threadVars, retq, histVars, pool2Vars>>

\* the allocator plays no part in DPDK_TBT_Test
InitDpdk == PoolBuilt(0)

NextDpdk ==
    \/ HandlerInit
    \/ RxBurst
    \/ ProcessPacket
    \/ WhileStep

SpecDpdk == InitDpdk /\ [][NextDpdk]_vars

(***************************************************************************)
(* The free list and the slots, as the claims speak of them.               *)
(***************************************************************************)
\* capacity() of a pool of the run-time specifications
Cap == ToNat(capacity_)

\* the nodes init_freelist built
Slots == DOMAIN node_next

Range(s) == {s[i] : i \in 1..Len(s)}

Last(s) == s[Len(s)]

RECURSIVE Walk(_, _)
\* the nodes met from n on along the next links, at most fuel of them
Walk(n, fuel) ==
    IF n = nullptr \/ fuel = 0 THEN << >>
    ELSE <<n>> \o Walk(node_next[n], fuel - 1)

\* the free list from free_head_, cut after capacity + 1 nodes
FreeWalk == Walk(free_head_, Cap + 1)

FreeSet == Range(FreeWalk)

\* mutant: free_count() walks the free list and counts its nodes
free_count_walk == Len(FreeWalk)

\* FixedPool::free_count(): return 0;
free_count == 0

\* the nodes of the pointers deallocate() is pushing right now
InFlightFree == {node[t] : t \in {u \in Threads : pc[u] \in {"d_store", "d_cas"}}}

\* the nodes of the slots that are allocated: handed out and not pushed back yet
AllocatedNodes == {Node_from(p) : p \in HeldPointers} \cup InFlightFree

\* the number of pointers handed out and not given back
LiveCount == BagCardinality(held[Owner])

Quiescent == \A t \in Threads : pc[t] = "idle"

\* C1: on a fresh pool of capacity N, allocate() calls with no deallocate() between
\* them return non-null exactly N times: a call returns null only once N calls have
\* succeeded, and no more than N succeed.
C1_FirstCapacityAllocationsSucceed ==
    (nDealloc = 0 /\ InFlightFree = {}) =>
        /\ nAllocOk <= Cap
        /\ \A i \in 1..Len(trace) :
              trace[i] = <<"allocate", nullptr>> => nAllocOk = Cap

\* C1 witness: a pool of the largest capacity handed out all its slots, one per call,
\* and the call after them returned null
C1_Witness ==
    /\ nDealloc = 0
    /\ Cap = MaxCap
    /\ nAllocOk = Cap
    /\ Len(trace) > 1
    /\ Last(trace) = <<"allocate", nullptr>>
    /\ trace[Len(trace) - 1][2] # nullptr

\* C2: no address is held twice: allocate() never returns a pointer that is still live.
C2_NoAddressLiveTwice ==
    \A p \in HeldPointers : Holdings(p) = 1 /\ Node_from(p) \notin InFlightFree

\* C2 witness: an address was given back and has been handed out again while
\* another allocation is live
C2_Witness ==
    /\ Quiescent
    /\ Len(trace) > 1
    /\ trace[Len(trace) - 1][1] = "deallocate"
    /\ Last(trace) = <<"allocate", trace[Len(trace) - 1][2]>>
    /\ LiveCount > 1

\* C3: every slot is either on the free list or allocated, never both; the free list
\* ends, holds no slot twice, and has capacity minus the live allocations entries.
C3_SlotsPartitioned ==
    /\ Len(FreeWalk) <= Cap
    /\ Cardinality(FreeSet) = Len(FreeWalk)
    /\ FreeSet \cap AllocatedNodes = {}
    /\ FreeSet \cup AllocatedNodes = Slots
    /\ Len(FreeWalk) + Cardinality(AllocatedNodes) = Cap

\* C3 witness: after allocations and deallocations, some slots free and some allocated
C3_Witness ==
    /\ Quiescent
    /\ Cap = MaxCap
    /\ nDealloc > 1
    /\ Len(FreeWalk) > 0
    /\ LiveCount > 1

\* C4: between calls the live slots number (successful allocate calls) minus
\* (deallocate calls), which is also the number of slots off the free list; and at
\* no point are more than capacity slots live.
C4_LiveCountIsAllocsMinusFrees ==
    /\ LiveCount + Cardinality(InFlightFree) <= Cap
    /\ Quiescent =>
          /\ LiveCount + nDealloc = nAllocOk
          /\ Cardinality(Slots \ FreeSet) + nDealloc = nAllocOk

\* C4 witness: a sequence with several allocations and deallocations done, slots live
C4_Witness ==
    /\ Quiescent
    /\ nAllocOk > 3
    /\ nDealloc > 1
    /\ LiveCount = 2

\* C5: under the single-owner-drain discipline no slot is held as allocated by two
\* threads at once: every pointer a thread holds has one holder, and it is neither
\* waiting in the return channel nor being pushed back by the owner.
C5_DrainDisciplineOneHolder ==
    \A p \in HeldPointers :
        /\ Holdings(p) = 1
        /\ p \notin Range(retq)
        /\ Node_from(p) \notin InFlightFree

\* C5 witness: the owner and a worker each hold a pointer while another pointer a
\* worker gave back waits in the return channel
C5_Witness ==
    /\ held[Owner] # EmptyBag
    /\ \E w \in Workers : held[w] # EmptyBag
    /\ retq # << >>
    /\ Cardinality(HeldPointers \cup Range(retq)) = 3

\* the free list ends, holds no slot twice, and holds exactly the slots that are
\* not allocated
ListIntact ==
    /\ Len(FreeWalk) <= Cap
    /\ Cardinality(FreeSet) = Len(FreeWalk)
    /\ FreeSet \cap AllocatedNodes = {}
    /\ FreeSet \cup AllocatedNodes = Slots

\* the free list contains a slot that is still allocated, or has lost a free slot
ListCorrupted ==
    \/ FreeSet \cap AllocatedNodes # {}
    \/ FreeSet \cup AllocatedNodes # Slots

\* the step is a successful exchange of allocate() by t whose head is free_head_
\* again but whose next is no longer head's next link
StaleExchange(t) ==
    /\ pc[t] = "a_cas"
    /\ CasMatches(t)
    /\ next[t] # node_next[head[t]]
    /\ held'[t] # held[t]

\* C6: with threads calling allocate() and deallocate() directly, an allocate() that
\* read head H and H->next, and whose exchange succeeds after H was popped and pushed
\* again with another next link, installs the stale next pointer and leaves the free
\* list corrupted.
C6_StaleExchangeCorruptsList ==
    [][\A t \in Threads :
          (ListIntact /\ StaleExchange(t)) => (free_head_' = next[t] /\ ListCorrupted')]_vars

\* C6 witness: after the stale exchange an allocate() returned a slot that is still
\* live: two threads hold the same pointer
C6_Witness ==
    \E p \in HeldPointers : \E t, u \in Threads :
        t # u /\ BagIn(p, held[t]) /\ BagIn(p, held[u])

\* C7: with one thread calling deallocate() and every thread calling allocate(), no
\* slot is returned to two callers that both still hold it, and the free list
\* contains no allocated slot.
C7_SingleProducerNoAba ==
    /\ \A p \in HeldPointers : Holdings(p) = 1
    /\ FreeSet \cap AllocatedNodes = {}

\* the step is an allocate() returning null
ReturnsNull == trace' # trace /\ Last(trace') = <<"allocate", nullptr>>

\* the calls i, i+1, i+2 of the window: allocate() found the pool exhausted, then a
\* pointer was deallocated, then allocate() was called again
ExhaustedThenFreed(i) ==
    /\ trace[i] = <<"allocate", nullptr>>
    /\ trace[i + 1][1] = "deallocate"
    /\ trace[i + 2][1] = "allocate"

\* C8: an allocate() that returns null finds free_head_ null and writes neither
\* free_head_ nor any next link, however often it is repeated; and after such calls
\* deallocate(p) followed by allocate() returns p.
C8_ExhaustedAllocateLeavesPoolIntact ==
    /\ [][ReturnsNull => (free_head_ = nullptr /\ UNCHANGED <<free_head_, node_next>>)]_vars
    /\ [](\A i \in 1..(Len(trace) - 2) :
             ExhaustedThenFreed(i) => trace[i + 2][2] = trace[i + 1][2])

\* C8 witness: two allocate() calls in a row returned null on an exhausted pool of
\* several slots, then a pointer was deallocated and allocate() returned it
C8_Witness ==
    /\ Cap > 1
    /\ Len(trace) > 3
    /\ trace[Len(trace) - 3] = <<"allocate", nullptr>>
    /\ ExhaustedThenFreed(Len(trace) - 2)
    /\ Last(trace)[2] = trace[Len(trace) - 1][2]
    /\ Last(trace)[2] # nullptr

\* the calls i .. i+2k-1 of the window are k deallocate() calls, then k allocate() calls
FreedThenAllocated(i, k) ==
    /\ \A j \in 0..(k - 1) : trace[i + j][1] = "deallocate"
    /\ \A j \in k..(2 * k - 1) : trace[i + j][1] = "allocate"

\* C9: the free list is LIFO: after deallocating p1..pk in that order the next k
\* allocate() calls return pk..p1 (k = 1: deallocate(p), allocate() returns p).
C9_FreeListIsLifo ==
    \A k \in 1..(TraceLen \div 2) :
        \A i \in 1..(Len(trace) - 2 * k + 1) :
            FreedThenAllocated(i, k) =>
                \A j \in 1..k : trace[i + k + j - 1][2] = trace[i + k - j][2]

\* C9 witness: three pointers were deallocated and the next three allocate() calls
\* returned them in reverse order
C9_Witness ==
    /\ Len(trace) = 6
    /\ FreedThenAllocated(1, 3)
    /\ Cardinality({trace[j][2] : j \in 1..3}) = 3
    /\ trace[4][2] = trace[3][2]
    /\ trace[6][2] = trace[1][2]

\* the pointers handed out lie d bytes apart: each but the highest has a neighbour
\* d bytes above it
SpacedBy(d) ==
    \A p \in HeldPointers :
        (\A q \in HeldPointers : q <= p) \/ (p + d) \in HeldPointers

SmallestMultipleAtLeast(s, x, a) ==
    /\ BitAnd(s, Sub1(a)) = U64(0)
    /\ ~Lt(s, x)
    /\ Lt(Widen(s), Add(Widen(x), Widen(a)))

\* C12: for every requested slot size, slot_size() is the smallest multiple of the
\* cache-line size that is at least max(requested slot size, sizeof(Node)).
C12_SlotSizeIsCeilingToCacheLine ==
    ctor # "none" =>
        SmallestMultipleAtLeast(slot_size_, Max(slot_size_arg, U64(SizeofNode)),
                                U64(CACHELINE_SIZE))

\* the bytes [lo, lo + n) lie inside [from, to)
Inside(lo, n, from, to) == from <= lo /\ lo + n <= to

\* the payload of slot i: sizeof(T) bytes at the storage member of its node
SlotPayload(i) == payload(storage_ + i * ToNat(slot_size_))

\* C13: the payload bytes of every pointer allocate() returned lie inside one slot
\* [base + i*slot_size, base + (i+1)*slot_size), i < capacity, hence inside the
\* arena's region, and the payloads of distinct slots do not overlap.
C13_PayloadInsideSlotAndArena ==
    /\ \A p \in HeldPointers :
          /\ \E i \in 0..(Cap - 1) :
                Inside(p, SizeofT, storage_ + i * ToNat(slot_size_),
                       storage_ + (i + 1) * ToNat(slot_size_))
          /\ Inside(p, SizeofT, arena_base, arena_base + ToNat(arena_size))
    /\ ctor = "ok" =>
          \A i, j \in 0..(Cap - 1) :
              i < j => SlotPayload(i) + SizeofT <= SlotPayload(j)

\* the constructor called the library function fn
Called(fn) == \E i \in 1..Len(oscalls) : oscalls[i][1] = fn

\* the constructor called fn and got the result r
Got(fn, r) == \E i \in 1..Len(oscalls) : oscalls[i] = <<fn, r>>

\* the constructor has thrown
ArenaFailed ==
    apc \notin {"start", "mlockall", "numa_available", "numa_alloc_onnode",
                "madvise", "prefault", "done"}

\* C14: NumaArena's constructor throws the NUMA-unavailable error when
\* numa_available() reports no support, before it asks for memory; it throws
\* bad_alloc when numa_alloc_onnode returns null; it throws for nothing else, a
\* failed mlockall included; and when it throws no region is reserved and no page
\* has been written.
C14_ArenaFailureModes ==
    /\ Got("numa_available", -1) =>
          (apc = "NumaUnavailable" /\ ~Called("numa_alloc_onnode"))
    /\ Got("numa_alloc_onnode", nullptr) => apc = "bad_alloc"
    /\ ArenaFailed =>
          /\ \/ apc = "NumaUnavailable" /\ Got("numa_available", -1)
             \/ apc = "bad_alloc" /\ Got("numa_alloc_onnode", nullptr)
          /\ arena_base = nullptr
          /\ touched = EmptyBag
    /\ (apc = "done" /\ ToNat(arena_size) > 0) => touched # EmptyBag

\* C14 witness: mlockall failed, NUMA is available, and the allocation returned
\* null: the constructor threw bad_alloc
C14_Witness ==
    /\ apc = "bad_alloc"
    /\ Got("mlockall", -1)
    /\ Got("numa_available", 0)

\* C15: for every requested size and every page size P, size() is the smallest
\* multiple of P that is at least the requested size, also for requests close to
\* the largest size_t.
C15_ArenaSizeIsCeilingToPage ==
    (apc # "start" /\ ~ArenaFailed) =>
        SmallestMultipleAtLeast(arena_size, bytes, U64(ps))

\* C16: when NumaArena's constructor has returned, a zero byte has been written
\* exactly once at every offset k*P below size(), P the page size, and nowhere
\* outside the region; a pool is built over the arena only after that.
C16_EveryPageTouchedOnce ==
    /\ apc = "done" =>
          /\ \A k \in 0..(ToNat(arena_size) \div ps) :
                k * ps < ToNat(arena_size) => CopiesIn(k * ps, touched) = 1
          /\ \A o \in BagToSet(touched) :
                o < ToNat(arena_size) /\ CopiesIn(o, touched) = 1
    /\ ctor # "none" => apc = "done"

\* C16 witness: an arena of several pages larger than the stride has been built and
\* prefaulted, and a pool stands on it
C16_Witness ==
    /\ apc = "done"
    /\ ps > stride
    /\ ToNat(arena_size) > ps
    /\ BagCardinality(touched) * stride = ToNat(arena_size)
    /\ ctor = "ok"

\* C17: free_count() returns 0 in every state of the pool, however many slots are
\* on the free list.
C17_FreeCountIsZero == free_count = 0

\* C17 witness: every slot of a pool of several slots has been allocated and given
\* back, so all are free, and free_count() is not their number
C17_Witness ==
    /\ Quiescent
    /\ Cap = MaxCap
    /\ nAllocOk = Cap
    /\ nDealloc = Cap
    /\ Len(FreeWalk) = Cap
    /\ free_count # Len(FreeWalk)

\* C18: a compare-and-swap on free_head_ fails and is retried only if free_head_ is
\* no longer the head the thread last read, so a thread running alone completes
\* each call with a single compare-and-swap.
C18_ExchangeFailsOnlyOnContention ==
    [][\A t \in Threads :
          (pc[t] \in {"a_cas", "d_cas"} /\ pc'[t] \in {"a_next", "d_store"})
              => free_head_ # head[t]]_vars

\* the positions in the window of the allocate() calls that returned a slot
Successes == {i \in 1..Len(trace) : trace[i][1] = "allocate" /\ trace[i][2] # nullptr}

\* C19: when threads call only allocate() concurrently, no two calls return the same
\* slot, and once all have returned the non-null results number
\* min(calls made, slots free at the start).
C19_ConcurrentAllocatesDistinct ==
    ~DeallocPhase =>
        /\ \A p \in HeldPointers : Holdings(p) = 1
        /\ Cardinality({trace[i][2] : i \in Successes}) = Cardinality(Successes)
        /\ Quiescent =>
              /\ Cardinality(Successes) = nAllocOk
              /\ nAllocOk = (IF Len(trace) < Cap THEN Len(trace) ELSE Cap)

\* C19 witness: both threads got slots from a pool of several slots, more calls were
\* made than there were slots, and all calls have returned
C19_Witness ==
    /\ ~DeallocPhase
    /\ Quiescent
    /\ Cap > 1
    /\ \A t \in Threads : held[t] # EmptyBag
    /\ Len(trace) > Cap

\* C20: when threads call only deallocate() concurrently, each with a live pointer
\* of its own, the free list stays acyclic and holds exactly the slots that are not
\* allocated; after all calls every returned slot is on it once and the slots that
\* were free before are still on it.
C20_ConcurrentDeallocatesAllPushed ==
    DeallocPhase =>
        /\ ListIntact
        /\ (Quiescent /\ HeldPointers = {}) =>
              (FreeSet = Slots /\ Len(FreeWalk) = Cap)

\* C20 witness: in a pool of three slots one deallocate() has pushed its slot while
\* another thread's deallocate() still holds the head it read before, so that its
\* exchange has to fail and be retried; a third slot was free all along
C20_Witness ==
    /\ Cap > 2
    /\ nAllocOk = 2
    /\ nDealloc = 1
    /\ \E t \in Threads : pc[t] = "d_cas" /\ head[t] # free_head_
    /\ Len(FreeWalk) = 2

\* the byte ranges [n1, n1 + s1) and [n2, n2 + s2) have a byte in common
RangesOverlap(n1, s1, n2, s2) == n1 < n2 + s2 /\ n2 < n1 + s1

\* C21: the slots two pools built over one arena have handed out never overlap:
\* no byte belongs to a slot of the first pool and to a slot of the second
C21_PoolsOverOneArenaDisjoint ==
    \A p \in HeldPointers, q \in held2 :
        ~RangesOverlap(Node_from(p), ToNat(slot_size_), Node_from(q), ToNat(pool2.slot_size))

TopPayloads(k) == {SlotPayload(Cap - i) : i \in 1..k}

\* C23: on a fresh pool the i-th allocate() returns the payload of slot index
\* capacity - i: the initial allocations come from the highest-addressed slot
\* downwards, slot_size() apart, and slot 0 is handed out last.
C23_FreshPoolHandsOutTopDown ==
    /\ [][held'[Owner] # held[Owner] =>
             held'[Owner] = held[Owner] (+)
                 SetToBag({SlotPayload(Cap - (BagCardinality(held[Owner]) + 1))})]_vars
    /\ [](LET k == BagCardinality(held[Owner])
          IN  /\ k <= Cap
              /\ held[Owner] = SetToBag(TopPayloads(k))
              /\ free_head_ = IF k = Cap THEN nullptr ELSE Node_from(SlotPayload(Cap - k - 1)))

\* C23 witness: every slot but slot 0 of a pool of capacity FillCap is handed out,
\* and slot 0 is the head of the free list
C23_Witness ==
    /\ Cap = FillCap
    /\ BagCardinality(held[Owner]) = FillCap - 1
    /\ free_head_ = storage_
    /\ ~BagIn(SlotPayload(0), held[Owner])

\* the head of the free list is linked to itself
SelfLoop == free_head_ # nullptr /\ node_next[free_head_] = free_head_

\* the free list does not end: capacity + 1 nodes are met from the head on
Cyclic == Len(FreeWalk) > Cap

\* the step in which a deallocate() of the node that is already the head returns
DoubleFreeOfHeadReturns ==
    pc[Owner] = "d_cas" /\ pc'[Owner] = "idle" /\ node[Owner] = free_head_

\* the step is a whole deallocate() call that returned at its first statement
ReturnsAtOnce == pc[Owner] = "idle" /\ nDealloc' # nDealloc

\* C24: deallocate() validates nothing but null.  Deallocating a slot that is free
\* and the current head links the node to itself; from then on the list is cyclic,
\* every allocate() returns that same address while the head is linked to itself, and
\* no allocate() returns null again.  deallocate(nullptr) is the only call turned
\* away, and it leaves the pool as it was.
C24_DoubleFreeOfHeadMakesCycle ==
    /\ [][DoubleFreeOfHeadReturns => SelfLoop']_vars
    /\ [][(SelfLoop /\ nAllocOk' # nAllocOk) =>
             (Last(trace') = <<"allocate", payload(free_head_)>> /\ SelfLoop')]_vars
    /\ [][Cyclic => (Cyclic' /\ ~ReturnsNull)]_vars
    /\ [][ReturnsAtOnce =>
             (Last(trace')[2] = nullptr /\ UNCHANGED <<poolVars, threadVars>>)]_vars

\* C24 witness: after a double free of the head the same address has been handed out
\* twice and is the head once more, and a deallocate(nullptr) has been made
C24_Witness ==
    /\ SelfLoop
    /\ CopiesIn(payload(free_head_), held[Owner]) >= 2
    /\ \E i \in 1..Len(trace) : trace[i] = <<"deallocate", nullptr>>

\* the next links of all nodes but n are left as they are
OtherLinksUnchanged(n) ==
    /\ DOMAIN node_next' = DOMAIN node_next
    /\ \A o \in Slots \ {n} : node_next'[o] = node_next[o]

\* C25: allocate() writes free_head_ only; deallocate(p) writes free_head_ and the
\* next link of p's own node only.  No step of either changes capacity(), slot_size(),
\* the storage pointer, the next link of another slot, or the arena's base() and size().
C25_CallsWriteHeadAndOwnLinkOnly ==
    [][/\ UNCHANGED <<ctor, capacity_, slot_size_, storage_, arena_base, arena_size>>
       /\ free_head_' # free_head_ => \E t \in Threads : pc[t] \in {"a_cas", "d_cas"}
       /\ node_next' # node_next =>
              \E t \in Threads : pc[t] = "d_store" /\ OtherLinksUnchanged(node[t])
       /\ \A t \in Threads :
              (pc[t] = "d_store" /\ pc'[t] # pc[t]) => OtherLinksUnchanged(node[t])]_vars

\* C25 witness: deallocate() calls have rewritten a link (a node is linked to one
\* above it) and the head, on a pool that still has its capacity and storage
C25_Witness ==
    /\ \E n \in Slots : node_next[n] > n
    /\ free_head_ # nullptr
    /\ capacity_ = U64(MaxCapMT)
    /\ storage_ = arena_base
    /\ slot_size_ = U64(SizeofNode)

\* C26: over the life of the process mlockall is called at most once, however many
\* arenas are constructed
C26_MlockallAtMostOnce == mlockalls <= 1

RECURSIVE Entries(_)
\* one entry per record, in the order of the records
Entries(records) ==
    IF records = << >> THEN << >> ELSE TickEntry(Head(records)) \o Entries(Tail(records))

\* process_packet has gone through a datagram it did not turn away
Processed == hpc = "done" /\ (mbuf.dst_addr_match \/ mbuf.dst_port_match)

\* C27: for a datagram of n >= 1 TickerData records the handler's result is the
\* concatenation of one formatted entry per record, the k-th for the k-th record, and
\* the loop ends after n iterations
C27_OneEntryPerRecordInOrder ==
    Processed =>
        /\ ret = Entries(mbuf.records)
        /\ offset = Len(mbuf.records) * SizeofTickerData

\* C10: construction fails with "Arena too small" exactly when the mathematical
\* product capacity * effective slot size exceeds arena.size(), for every capacity
\* and slot size of size_t.
C10_ArenaTooSmallIffProductExceeds ==
    ctor # "none" =>
        (ctor = "ArenaTooSmall" <=> Overruns(arena_size, capacity_, slot_size_))

=============================================================================
